---- MODULE Spec2Model ----
(***************************************************************************)
(* Quiz matchmaking: GamesRepository (src/src/games/games.repository.ts)   *)
(* driven by concurrent POST /games/connection requests.  Every await of   *)
(* connectToGame / createGame is one step of the request that runs it; no  *)
(* statement of the repository runs inside a transaction, so the steps of  *)
(* different requests interleave freely.  BlogSpec is the handler          *)
(* BlogsController.getPostsByBlogId (src/unnamed/part_000) on its own.     *)
(***************************************************************************)
EXTENDS Integers, Sequences, FiniteSets, TLC

\* ---------------------------------------------------------------- bounds
MaxFailures == 1
QuestionsCount == 2

\* three concurrent requests: enough for one creator and two racing joiners
Requests == {1, 2, 3}
Users == {1, 2, 3}

\* SQL NULL for ids and dates (ids and timestamps start at 1)
NULL == 0

VARIABLES
  games,          \* table game: sequence of rows, id = index
  progresses,     \* table progress: sequence of rows, id = index
  gameQuestions,  \* table game_questions: set of rows
  pool,           \* table questions: set of question ids (too few, or just enough)
  now,            \* wall clock: every new Date() reads a later instant
  failures,       \* number of storage faults injected so far
  pc,             \* position of each request
  userId,         \* authenticated user of each request
  existedGame,    \* id of the game returned by getGameInPendingSecondPalyer
  progress,       \* id returned by createProgress (NULL when it returned nothing)
  newGame,        \* id of the row inserted by createGame
  updatedAt,      \* value of new Date() written by this request's UPDATE
  view,           \* body returned by connectToGame / createGame
  result,         \* outcome of the request
  cause,          \* what made the request fail (the catch block hides it)
  \* GET /blogs/:blogId/posts (BlogsController.getPostsByBlogId)
  blogs,          \* table blog: ids of the blogs getById finds
  bpc,            \* position of each blog request
  authorization,  \* req.headers.authorization, split at the spaces
  blogId,         \* params.blogId
  blog,           \* row returned by blogsSqlRepository.getById (NULL for null)
  currentUserId,  \* the handler's local currentUserId
  logged,         \* the catch block has written to the console
  response        \* what the handler returned or threw

gameVars == <<games, progresses, gameQuestions, pool, now, failures, pc, userId,
              existedGame, progress, newGame, updatedAt, view, result,
              cause>>

blogVars == <<blogs, bpc, authorization, blogId, blog, currentUserId, logged,
              response>>

vars == <<gameVars, blogVars>>

locals == <<userId, existedGame, progress, newGame, updatedAt, view>>

\* ---------------------------------------------------------------- enums
pending == "pending"
active == "active"
finished == "finished"

GameIds == 1..Len(games)
ProgressIds == 1..Len(progresses)

\* ------------------------------------------------------------- relations
\* userId of a progress row, NULL for a NULL link
ProgressUser(pid) == IF pid = NULL THEN NULL ELSE progresses[pid].userId

QuestionsOf(id) == {r \in gameQuestions : r.gameId = id}

\* ------------------------------------------------------------- queries
\* faulty variant: the where clause lacks the status condition
getGameInPendingSecondPalyer_AnyStatus ==
  {g \in GameIds : games[g].firstPlayerProgressId # NULL}

\* WHERE status = pending AND firstPlayerProgressId IS NOT NULL, getRawOne()
\* without ORDER BY: any matching row may be the one returned.
getGameInPendingSecondPalyer ==
  {g \in GameIds : games[g].status = pending /\ games[g].firstPlayerProgressId # NULL}

getMyCurrentGameInPendingSecondPalyer(u) ==
  {g \in GameIds : games[g].status = pending
                   /\ games[g].firstPlayerProgressId # NULL
                   /\ ProgressUser(games[g].firstPlayerProgressId) = u}

\* faulty variant: the where list lacks the firstPlayerProgress alternative
getActiveGameOfUser_SecondOnly(u) ==
  {g \in GameIds : games[g].status = active
                   /\ games[g].secondPlayerProgressId # NULL
                   /\ ProgressUser(games[g].secondPlayerProgressId) = u}

getActiveGameOfUser(u) ==
  {g \in GameIds : games[g].status = active
                   /\ \/ (games[g].firstPlayerProgressId # NULL
                          /\ ProgressUser(games[g].firstPlayerProgressId) = u)
                      \/ (games[g].secondPlayerProgressId # NULL
                          /\ ProgressUser(games[g].secondPlayerProgressId) = u)}

\* faulty variant: the questions relation is joined for active games only
getExtendedGameById_ActiveOnly(id) ==
  [id |-> id,
   status |-> games[id].status,
   firstPlayerProgress |-> games[id].firstPlayerProgressId,
   secondPlayerProgress |-> games[id].secondPlayerProgressId,
   startGameDate |-> games[id].startGameDate,
   finishGameDate |-> games[id].finishGameDate,
   questions |-> IF games[id].status = active THEN QuestionsOf(id) ELSE {}]

\* findOne({where: {id}, relations: {questions, firstPlayerProgress, secondPlayerProgress}})
getExtendedGameById(id) ==
  [id |-> id,
   status |-> games[id].status,
   firstPlayerProgress |-> games[id].firstPlayerProgressId,
   secondPlayerProgress |-> games[id].secondPlayerProgressId,
   startGameDate |-> games[id].startGameDate,
   finishGameDate |-> games[id].finishGameDate,
   questions |-> QuestionsOf(id)]

\* Player-In-Game Checker
isUserInOpenGame(u) ==
  getMyCurrentGameInPendingSecondPalyer(u) # {} \/ getActiveGameOfUser(u) # {}

\* ------------------------------------------------------- question selector
Injective(s) == \A i, j \in DOMAIN s : i # j => s[i] # s[j]

\* faulty variant: sampling with replacement
drawQuestions_WithReplacement(n) == [1..n -> pool]

drawQuestions(n) == {s \in [1..n -> pool] : Injective(s)}

\* faulty variant: order counts the draw positions from 1
assignQuestions_OneBased(gameId, qs) ==
  {[id |-> Cardinality(gameQuestions) + i, gameId |-> gameId,
    questionId |-> qs[i], order |-> i] : i \in DOMAIN qs}

\* rows written for one game: order is the draw position, 0-based
assignQuestions(gameId, qs) ==
  {[id |-> Cardinality(gameQuestions) + i, gameId |-> gameId,
    questionId |-> qs[i], order |-> i - 1] : i \in DOMAIN qs}

\* faulty variant: a second assignment is never rejected and appends
DuplicateAssignment_Never(gameId) == FALSE

\* calling it for a game that already has rows is DuplicateAssignment
DuplicateAssignment(gameId) == QuestionsOf(gameId) # {}

\* ------------------------------------------------------- progress tracker
createProgress(u) == Append(progresses, [userId |-> u, score |-> 0])

\* ------------------------------------------------------------ game writes
\* faulty variant: the SET list leaves out status
UpdateGame_NoStatus(id, pid, t) ==
  [games EXCEPT ![id] =
     [@ EXCEPT !.secondPlayerProgressId = IF pid = NULL THEN @ ELSE pid,
               !.startGameDate = t]]

\* faulty variant: the SET list leaves out startGameDate
UpdateGame_NoStartDate(id, pid, t) ==
  [games EXCEPT ![id] =
     [@ EXCEPT !.secondPlayerProgressId = IF pid = NULL THEN @ ELSE pid,
               !.status = active]]

\* faulty variant: the UPDATE has no where clause
UpdateGame_NoWhere(id, pid, t) ==
  [g \in GameIds |->
     [games[g] EXCEPT !.secondPlayerProgressId = IF pid = NULL THEN @ ELSE pid,
                      !.startGameDate = t,
                      !.status = active]]

\* UPDATE game SET secondPlayerProgressId, startGameDate, status = active
\* WHERE id = :id.  A value of undefined (progress?.id of no progress) is
\* left out of the SET list, so the column keeps what it holds.
UpdateGame(id, pid, t) ==
  [games EXCEPT ![id] =
     [@ EXCEPT !.secondPlayerProgressId = IF pid = NULL THEN @ ELSE pid,
               !.startGameDate = t,
               !.status = active]]

\* faulty variant: the progress id is written to the second player's column
InsertGame_SecondSlot(pid) ==
  Append(games, [status |-> pending,
                 firstPlayerProgressId |-> NULL,
                 secondPlayerProgressId |-> pid,
                 startGameDate |-> NULL,
                 finishGameDate |-> NULL])

\* INSERT INTO game (status, firstPlayerProgressId) VALUES (pending, :id)
InsertGame(pid) ==
  Append(games, [status |-> pending,
                 firstPlayerProgressId |-> pid,
                 secondPlayerProgressId |-> NULL,
                 startGameDate |-> NULL,
                 finishGameDate |-> NULL])

\* ------------------------------------------------------------------ views
RECURSIVE SortByOrder(_)
\* game.questions.sort((a, b) => a.order - b.order)
SortByOrder(rows) ==
  IF rows = {} THEN <<>>
  ELSE LET r == CHOOSE x \in rows : \A y \in rows : x.order <= y.order
       IN <<r>> \o SortByOrder(rows \ {r})

PreparedQuestions(rows) ==
  LET s == SortByOrder(rows)
  IN [i \in DOMAIN s |-> [id |-> s[i].id, body |-> s[i].questionId]]

NoView ==
  [id |-> NULL, status |-> "none", questions |-> <<>>,
   firstPlayerProgress |-> NULL, secondPlayerProgress |-> NULL,
   startGameDate |-> NULL, finishGameDate |-> NULL]

\* body returned by connectToGame
JoinedView(game) ==
  [id |-> game.id, status |-> game.status,
   questions |-> PreparedQuestions(game.questions),
   firstPlayerProgress |-> game.firstPlayerProgress,
   secondPlayerProgress |-> game.secondPlayerProgress,
   startGameDate |-> game.startGameDate,
   finishGameDate |-> game.finishGameDate]

\* body returned by createGame: questions null, secondPlayerProgress null
CreatedView(game) ==
  [id |-> game.id, status |-> game.status,
   questions |-> <<>>,
   firstPlayerProgress |-> game.firstPlayerProgress,
   secondPlayerProgress |-> NULL,
   startGameDate |-> game.startGameDate,
   finishGameDate |-> game.finishGameDate]

\* ---------------------------------------------------------------- helpers
Finish(p, r, c) ==
  /\ pc' = [pc EXCEPT ![p] = "done"]
  /\ result' = [result EXCEPT ![p] = r]
  /\ cause' = [cause EXCEPT ![p] = c]

Goto(p, l) ==
  /\ pc' = [pc EXCEPT ![p] = l]
  /\ UNCHANGED <<result, cause>>

\* ------------------------------------------------ GET /blogs/:blogId/posts
\* two concurrent requests: one to compare with the other
BlogRequests == {1, 2}
BlogIds == {1, 2}

\* an access token: the userId of its payload (NULL: the payload has none)
\* and whether its signature verifies
Tokens == [sub : {NULL} \cup Users, sig : {"good", "bad"}]

\* [1] of a split that has a single part
NoToken == [sub |-> NULL, sig |-> "none"]

\* the values of the authorization header, split at the spaces: no header,
\* a scheme alone, a scheme and a token (the handler never looks at the scheme)
Headers ==
  {<<>>, <<"Bearer">>} \cup {<<scheme, t>> : scheme \in {"Bearer", "Basic"}, t \in Tokens}

\* req.headers.authorization.split(' ')[1]
TokenOf(h) == IF Len(h) >= 2 THEN h[2] ELSE NoToken

\* JWTService.verifyAccessToken: the payload of a token that verifies, an
\* exception for any other argument
verifyAccessToken(token) ==
  IF token.sig = "good"
    THEN [throws |-> FALSE, userId |-> token.sub]
    ELSE [throws |-> TRUE, userId |-> NULL]

\* faulty variant: the catch block falls back to the unverified payload
CurrentUserIdOf_DecodeOnFailure(h) ==
  IF h = <<>>
    THEN [userId |-> NULL, logged |-> FALSE]
    ELSE LET payload == verifyAccessToken(TokenOf(h))
         IN IF payload.throws
              THEN [userId |-> TokenOf(h).sub, logged |-> TRUE]
              ELSE [userId |-> payload.userId, logged |-> FALSE]

\* if (req.headers.authorization) { try { currentUserId = userId || null }
\* catch { console.log('err') } }: what currentUserId holds afterwards and
\* whether the catch block ran
CurrentUserIdOf(h) ==
  IF h = <<>>
    THEN [userId |-> NULL, logged |-> FALSE]
    ELSE LET payload == verifyAccessToken(TokenOf(h))
         IN IF payload.throws
              THEN [userId |-> NULL, logged |-> TRUE]
              ELSE [userId |-> payload.userId, logged |-> FALSE]

\* blogsSqlRepository.getById(id): the row (its id) or null
getBlogById(id) == IF id \in blogs THEN id ELSE NULL

\* postsSqlRepository.getAll(query, currentUserId, blogId): the page it
\* returns is determined by its arguments (query is forwarded untouched)
getAllPosts(user, id) == [currentUserId |-> user, blogId |-> id]

NoResponse == [status |-> 0, body |-> [currentUserId |-> NULL, blogId |-> NULL]]

NotFound == [status |-> 404, body |-> [currentUserId |-> NULL, blogId |-> NULL]]

Ok(posts) == [status |-> 200, body |-> posts]

\* no blog request is in flight
BlogsIdle ==
  /\ blogs = {}
  /\ bpc = [r \in BlogRequests |-> "done"]
  /\ authorization = [r \in BlogRequests |-> <<>>]
  /\ blogId = [r \in BlogRequests |-> NULL]
  /\ blog = [r \in BlogRequests |-> NULL]
  /\ currentUserId = [r \in BlogRequests |-> NULL]
  /\ logged = [r \in BlogRequests |-> FALSE]
  /\ response = [r \in BlogRequests |-> NoResponse]

\* ------------------------------------------------------------------ Init
Init ==
  /\ games = <<>>
  /\ progresses = <<>>
  /\ gameQuestions = {}
  /\ pool \in {1..n : n \in (QuestionsCount - 1)..QuestionsCount}
  /\ now = 1
  /\ failures = 0
  /\ pc = [p \in Requests |-> "gate"]
  \* requests and users are interchangeable: request p is one of the first p users
  /\ userId \in {f \in [Requests -> Users] : \A p \in Requests : f[p] <= p}
  /\ existedGame = [p \in Requests |-> NULL]
  /\ progress = [p \in Requests |-> NULL]
  /\ newGame = [p \in Requests |-> NULL]
  /\ updatedAt = [p \in Requests |-> NULL]
  /\ view = [p \in Requests |-> NoView]
  /\ result = [p \in Requests |-> "none"]
  /\ cause = [p \in Requests |-> "none"]
  /\ BlogsIdle

\* ------------------------------------------------- POST /games/connection
\* admission gate
Gate(p) ==
  /\ pc[p] = "gate"
  /\ IF isUserInOpenGame(userId[p])
       THEN Finish(p, "ParticipationConflict", "none")
       ELSE Goto(p, "find")
  /\ UNCHANGED <<games, progresses, gameQuestions, pool, now, failures, locals>>
  /\ UNCHANGED blogVars

\* findOpenSlot, then join it or create a game
FindOpenSlot(p) ==
  /\ pc[p] = "find"
  /\ \/ /\ getGameInPendingSecondPalyer = {}
        /\ Goto(p, "cg_progress")
        /\ UNCHANGED existedGame
     \/ /\ \E g \in getGameInPendingSecondPalyer :
             existedGame' = [existedGame EXCEPT ![p] = g]
        /\ Goto(p, "ctg_progress")
  /\ UNCHANGED <<games, progresses, gameQuestions, pool, now, failures,
                 userId, progress, newGame, updatedAt, view>>
  /\ UNCHANGED blogVars

\* ----------------------------------------------------------- connectToGame
\* const progress = await this.progressesRepository.createProgress(userId)
ConnectCreateProgress(p) ==
  /\ pc[p] = "ctg_progress"
  /\ \/ /\ progresses' = createProgress(userId[p])
        /\ progress' = [progress EXCEPT ![p] = Len(progresses')]
        /\ UNCHANGED failures
     \/ /\ failures < MaxFailures
        /\ failures' = failures + 1
        /\ UNCHANGED <<progresses, progress>>
  /\ Goto(p, "ctg_questions")
  /\ UNCHANGED <<games, gameQuestions, pool, now, userId, existedGame,
                 newGame, updatedAt, view>>
  /\ UNCHANGED blogVars

\* const questions = await this.getRandomQuestionsForGameUseCase.execute()
\* await this.setRandomQuestionsForGameUseCase.execute(questions, existedGame.id)
\* The draw only reads the question table, which no request writes, so it is
\* taken in the same step as the assignment that follows it.
ConnectQuestions(p) ==
  /\ pc[p] = "ctg_questions"
  /\ IF Cardinality(pool) < QuestionsCount
       THEN /\ Finish(p, "BadRequest", "InsufficientQuestions")
            /\ UNCHANGED gameQuestions
       ELSE IF DuplicateAssignment(existedGame[p])
       THEN /\ Finish(p, "BadRequest", "DuplicateAssignment")
            /\ UNCHANGED gameQuestions
       ELSE /\ \E questions \in drawQuestions(QuestionsCount) :
                 gameQuestions' =
                   gameQuestions \cup assignQuestions(existedGame[p], questions)
            /\ Goto(p, "ctg_update")
  /\ UNCHANGED <<games, progresses, pool, now, failures, locals>>
  /\ UNCHANGED blogVars

\* await this.gamesRepo.createQueryBuilder('game').update().set(...).where(...)
ConnectUpdate(p) ==
  /\ pc[p] = "ctg_update"
  /\ games' = UpdateGame(existedGame[p], progress[p], now)
  /\ updatedAt' = [updatedAt EXCEPT ![p] = now]
  /\ now' = now + 1
  /\ Goto(p, "ctg_read")
  /\ UNCHANGED <<progresses, gameQuestions, pool, failures, userId,
                 existedGame, progress, newGame, view>>
  /\ UNCHANGED blogVars

\* const game = await this.getExtendedGameById(existedGame.id), then the body;
\* game.secondPlayerProgress.id of a null relation throws into the catch block
ConnectRead(p) ==
  /\ pc[p] = "ctg_read"
  /\ LET game == getExtendedGameById(existedGame[p])
     IN IF game.secondPlayerProgress = NULL
          THEN /\ Finish(p, "BadRequest", "TypeError")
               /\ UNCHANGED view
          ELSE /\ view' = [view EXCEPT ![p] = JoinedView(game)]
               /\ Finish(p, "Joined", "none")
  /\ UNCHANGED <<games, progresses, gameQuestions, pool, now, failures,
                 userId, existedGame, progress, newGame, updatedAt>>
  /\ UNCHANGED blogVars

\* -------------------------------------------------------------- createGame
\* const firstUserProgress = await createProgress(userId); null => return null
CreateCreateProgress(p) ==
  /\ pc[p] = "cg_progress"
  /\ \/ /\ progresses' = createProgress(userId[p])
        /\ progress' = [progress EXCEPT ![p] = Len(progresses')]
        /\ Goto(p, "cg_insert")
        /\ UNCHANGED failures
     \/ /\ failures < MaxFailures
        /\ failures' = failures + 1
        /\ Finish(p, "Null", "NoProgress")
        /\ UNCHANGED <<progresses, progress>>
  /\ UNCHANGED <<games, gameQuestions, pool, now, userId, existedGame,
                 newGame, updatedAt, view>>
  /\ UNCHANGED blogVars

\* const newGame = await query.insert().values({status: pending, ...}).execute()
CreateInsert(p) ==
  /\ pc[p] = "cg_insert"
  /\ games' = InsertGame(progress[p])
  /\ newGame' = [newGame EXCEPT ![p] = Len(games')]
  /\ Goto(p, "cg_read")
  /\ UNCHANGED <<progresses, gameQuestions, pool, now, failures, userId,
                 existedGame, progress, updatedAt, view>>
  /\ UNCHANGED blogVars

\* const game = await this.getExtendedGameById(newGame.raw[0].id), then the body
CreateRead(p) ==
  /\ pc[p] = "cg_read"
  /\ view' = [view EXCEPT ![p] = CreatedView(getExtendedGameById(newGame[p]))]
  /\ Finish(p, "Created", "none")
  /\ UNCHANGED <<games, progresses, gameQuestions, pool, now, failures,
                 userId, existedGame, progress, newGame, updatedAt>>
  /\ UNCHANGED blogVars

\* ------------------------------------------------------------- environment
\* a statement of the request throws; every catch block answers BAD_REQUEST
\* and undoes nothing
StorageFailure(p) ==
  /\ pc[p] # "done"
  /\ failures < MaxFailures
  /\ failures' = failures + 1
  /\ Finish(p, "BadRequest", "StorageFailure")
  /\ UNCHANGED <<games, progresses, gameQuestions, pool, now, locals>>
  /\ UNCHANGED blogVars

\* the external completion collaborator ends an active game
FinishGame(g) ==
  /\ games[g].status = active
  /\ games' = [games EXCEPT ![g] = [@ EXCEPT !.status = finished,
                                             !.finishGameDate = now]]
  /\ now' = now + 1
  /\ UNCHANGED <<progresses, gameQuestions, pool, failures, pc, locals,
                 result, cause>>
  /\ UNCHANGED blogVars

Next ==
  \/ \E p \in Requests :
       \/ Gate(p)
       \/ FindOpenSlot(p)
       \/ ConnectCreateProgress(p)
       \/ ConnectQuestions(p)
       \/ ConnectUpdate(p)
       \/ ConnectRead(p)
       \/ CreateCreateProgress(p)
       \/ CreateInsert(p)
       \/ CreateRead(p)
       \/ StorageFailure(p)
  \/ \E g \in GameIds : FinishGame(g)

Spec == Init /\ [][Next]_vars

\* ------------------------------------------------ BlogsController
\* no game request is in flight
GamesIdle ==
  /\ games = <<>>
  /\ progresses = <<>>
  /\ gameQuestions = {}
  /\ pool = 1..QuestionsCount
  /\ now = 1
  /\ failures = 0
  /\ pc = [p \in Requests |-> "done"]
  /\ userId = [p \in Requests |-> p]
  /\ existedGame = [p \in Requests |-> NULL]
  /\ progress = [p \in Requests |-> NULL]
  /\ newGame = [p \in Requests |-> NULL]
  /\ updatedAt = [p \in Requests |-> NULL]
  /\ view = [p \in Requests |-> NoView]
  /\ result = [p \in Requests |-> "none"]
  /\ cause = [p \in Requests |-> "none"]

BlogInit ==
  /\ GamesIdle
  /\ blogs = BlogIds
  /\ bpc = [r \in BlogRequests |-> "start"]
  /\ authorization \in [BlogRequests -> Headers]
  \* the route :blogId/posts never binds an empty blogId
  /\ blogId \in [BlogRequests -> BlogIds]
  /\ blog = [r \in BlogRequests |-> NULL]
  /\ currentUserId = [r \in BlogRequests |-> NULL]
  /\ logged = [r \in BlogRequests |-> FALSE]
  /\ response = [r \in BlogRequests |-> NoResponse]

\* if (!params.blogId) throw NOT_FOUND; const blog = await getById(params.blogId)
GetBlog(r) ==
  /\ bpc[r] = "start"
  /\ IF blogId[r] = NULL
       THEN /\ response' = [response EXCEPT ![r] = NotFound]
            /\ bpc' = [bpc EXCEPT ![r] = "done"]
            /\ UNCHANGED blog
       ELSE /\ blog' = [blog EXCEPT ![r] = getBlogById(blogId[r])]
            /\ bpc' = [bpc EXCEPT ![r] = "auth"]
            /\ UNCHANGED response
  /\ UNCHANGED <<blogs, authorization, blogId, currentUserId, logged>>
  /\ UNCHANGED gameVars

\* if (!blog) throw NOT_FOUND; then the authorization block, up to the call
\* of postsSqlRepository.getAll
Authorize(r) ==
  /\ bpc[r] = "auth"
  /\ IF blog[r] = NULL
       THEN /\ response' = [response EXCEPT ![r] = NotFound]
            /\ bpc' = [bpc EXCEPT ![r] = "done"]
            /\ UNCHANGED <<currentUserId, logged>>
       ELSE /\ currentUserId' =
                 [currentUserId EXCEPT ![r] = CurrentUserIdOf(authorization[r]).userId]
            /\ logged' = [logged EXCEPT ![r] = CurrentUserIdOf(authorization[r]).logged]
            /\ bpc' = [bpc EXCEPT ![r] = "posts"]
            /\ UNCHANGED response
  /\ UNCHANGED <<blogs, authorization, blogId, blog>>
  /\ UNCHANGED gameVars

\* const posts = await this.postsSqlRepository.getAll(query, currentUserId, blog.id)
\* return posts
GetPosts(r) ==
  /\ bpc[r] = "posts"
  /\ response' = [response EXCEPT ![r] = Ok(getAllPosts(currentUserId[r], blog[r]))]
  /\ bpc' = [bpc EXCEPT ![r] = "done"]
  /\ UNCHANGED <<blogs, authorization, blogId, blog, currentUserId, logged>>
  /\ UNCHANGED gameVars

\* BlogsRepository.deleteBlog: another client removes a blog
DeleteBlog(b) ==
  /\ b \in blogs
  /\ blogs' = blogs \ {b}
  /\ UNCHANGED <<bpc, authorization, blogId, blog, currentUserId, logged, response>>
  /\ UNCHANGED gameVars

BlogNext ==
  \/ \E r \in BlogRequests :
       \/ GetBlog(r)
       \/ Authorize(r)
       \/ GetPosts(r)
  \/ \E b \in BlogIds : DeleteBlog(b)

BlogSpec == BlogInit /\ [][BlogNext]_vars

\* ================================================================ claims
Open(g) == games[g].status \in {pending, active}

\* the progress row is linked from some game
Referenced(pid) ==
  \E g \in GameIds : games[g].firstPlayerProgressId = pid
                     \/ games[g].secondPlayerProgressId = pid

\* p is a connectToGame call, q another one by a different user for the same game
Racing(p, q) ==
  /\ p # q
  /\ userId[p] # userId[q]
  /\ existedGame[p] # NULL
  /\ existedGame[p] = existedGame[q]

\* p has executed the UPDATE of connectToGame
Updated(p) == updatedAt[p] # NULL

NoFault == failures = 0 /\ Cardinality(pool) >= QuestionsCount

\* C1: of two concurrent connectToGame calls by different users for the same
\* pending game at most one executes the activating UPDATE, the game then
\* holds that call's progress and start date (the other call changed
\* nothing), and when both have ended without a storage fault exactly one
\* of them has activated the game.
C1_ExactlyOneJoinActivates ==
  \A p, q \in Requests :
    Racing(p, q) =>
      /\ ~(Updated(p) /\ Updated(q))
      /\ (Updated(p) /\ progress[p] # NULL) =>
           /\ games[existedGame[p]].status \in {active, finished}
           /\ games[existedGame[p]].secondPlayerProgressId = progress[p]
           /\ games[existedGame[p]].startGameDate = updatedAt[p]
      /\ (pc[p] = "done" /\ pc[q] = "done" /\ NoFault) =>
           (Updated(p) /\ result[p] = "Joined") # (Updated(q) /\ result[q] = "Joined")

C1_Witness ==
  \E p, q \in Requests :
    /\ Racing(p, q)
    /\ NoFault
    /\ result[p] = "Joined"
    /\ result[q] = "BadRequest"
    /\ progress[q] # NULL
    /\ games[existedGame[p]].secondPlayerProgressId = progress[p]

\* C2: secondPlayerProgressId is non-null exactly when the game is active or
\* finished.
C2_SecondPlayerIffStarted ==
  \A g \in GameIds :
    (games[g].secondPlayerProgressId # NULL) <=> (games[g].status \in {active, finished})

\* C3: after two concurrent joins of the same pending game have both ended
\* (no storage fault), no progress row created by either call is left
\* unreferenced by every game.
C3_NoOrphanProgressAfterRace ==
  \A p, q \in Requests :
    (Racing(p, q) /\ pc[p] = "done" /\ pc[q] = "done" /\ NoFault) =>
      \A r \in {p, q} : progress[r] # NULL => Referenced(progress[r])

\* C4: a createGame call whose user is already in a pending or active game
\* ends without creating a progress row or a game row.
C4_CreateGameRejectsParticipant ==
  [][\A p \in Requests :
       (pc[p] = "cg_progress" /\ pc'[p] # "cg_progress" /\ isUserInOpenGame(userId[p]))
         => (pc'[p] = "done" /\ progresses' = progresses /\ games' = games)]_vars

\* C5: no user is referenced by the progress slots of more than one pending or
\* active game.
C5_OneOpenGamePerUser ==
  \A u \in Users :
    Cardinality({g \in GameIds :
                   /\ Open(g)
                   /\ u \in {ProgressUser(games[g].firstPlayerProgressId),
                             ProgressUser(games[g].secondPlayerProgressId)}}) <= 1

\* C6: the two progress records of an active or finished game belong to two
\* different users.
C6_NoSelfJoin ==
  \A g \in GameIds :
    (games[g].status \in {active, finished} /\ games[g].secondPlayerProgressId # NULL)
      => ProgressUser(games[g].firstPlayerProgressId)
           # ProgressUser(games[g].secondPlayerProgressId)

\* C7: a game never has more GameQuestion rows than the configured question
\* count: an assignment for a game that already has rows is rejected and
\* adds none.
C7_QuestionsAssignedOnce ==
  \A g \in GameIds : Cardinality(QuestionsOf(g)) <= QuestionsCount

C7_Witness ==
  \E p \in Requests :
    /\ cause[p] = "DuplicateAssignment"
    /\ Cardinality(QuestionsOf(existedGame[p])) = QuestionsCount

\* C8: once getExtendedGameById returns questions for a game, every later
\* read of that game returns the same rows with the same order values.
C8_QuestionsImmutable ==
  [][\A g \in GameIds :
       getExtendedGameById(g).questions # {} =>
         getExtendedGameById(g).questions' = getExtendedGameById(g).questions]_vars

C8_Witness ==
  \E p \in Requests :
    /\ result[p] = "Joined"
    /\ games[existedGame[p]].status = finished
    /\ view[p].questions = PreparedQuestions(getExtendedGameById(existedGame[p]).questions)
    /\ Len(view[p].questions) = QuestionsCount

\* C9: every active game has both progress links and a full question
\* assignment, and a connectToGame call that failed has left no progress row
\* and no game update behind.
C9_NoPartialActivation ==
  /\ \A g \in GameIds :
       games[g].status = active =>
         /\ games[g].firstPlayerProgressId # NULL
         /\ games[g].secondPlayerProgressId # NULL
         /\ Cardinality(QuestionsOf(g)) = QuestionsCount
  /\ \A p \in Requests :
       (result[p] = "BadRequest" /\ existedGame[p] # NULL) =>
         (progress[p] = NULL /\ ~Updated(p))

\* C10: whenever getExtendedGameById runs, a game it returns as pending has no
\* questions and a game it returns with a second player is active or finished.
C10_ConsistentSnapshot ==
  \A g \in GameIds :
    /\ getExtendedGameById(g).status = pending => getExtendedGameById(g).questions = {}
    /\ getExtendedGameById(g).secondPlayerProgress # NULL
         => getExtendedGameById(g).status \in {active, finished}
\* C11: from the moment createGame has inserted the game of user u, the
\* Player-In-Game Checker answers true for u in every state in which that
\* game is not finished.
C11_CreatorStaysInOpenGame ==
  \A p \in Requests :
    (newGame[p] # NULL /\ games[newGame[p]].status # finished)
      => isUserInOpenGame(userId[p])

C11_Witness ==
  \E p, q \in Requests :
    /\ result[p] = "Created"
    /\ result[q] = "Joined"
    /\ existedGame[q] = newGame[p]
    /\ userId[q] # userId[p]
    /\ games[newGame[p]].status = active
    /\ isUserInOpenGame(userId[p])

\* C12: a step changes the status of a game that is active or finished only
\* from active to finished (the external completion): no createGame or
\* connectToGame step writes the status of such a game, and finished is
\* terminal.
C12_StatusOnlyPendingToActive ==
  [][\A g \in GameIds :
       games[g].status # pending =>
         \/ games'[g].status = games[g].status
         \/ (games[g].status = active /\ games'[g].status = finished
             /\ pc' = pc)]_vars

C12_Witness ==
  \E p \in Requests :
    /\ cause[p] = "DuplicateAssignment"
    /\ games[existedGame[p]].status = finished
    /\ ~Updated(p)

\* C13: when two connectToGame calls by different users for the same game
\* have both ended (no storage fault, enough questions), each of them either
\* is reported as joined, and then the game holds its progress as second
\* player, or has left its user as first player of a fresh pending game: in
\* both cases the progress it created is linked from a game.
C13_LoserRetriesAsCreate ==
  \A p, q \in Requests :
    (Racing(p, q) /\ pc[p] = "done" /\ pc[q] = "done" /\ NoFault) =>
      /\ result[p] \in {"Joined", "Created"}
      /\ Referenced(progress[p])
      /\ result[p] = "Joined" =>
           games[existedGame[p]].secondPlayerProgressId = progress[p]
\* C14: when connectToGame of user B for a game created by another user A has
\* returned the joined game, that game is active (finished once the external
\* completion ran), its startGameDate is the date written by this call, its
\* second progress is the one created for B in this call, its first progress
\* is still the one A's createGame linked, and it has exactly the configured
\* number of question rows, ordered 0..count-1.
C14_JoinActivatesGame ==
  \A p \in Requests :
    (result[p] = "Joined"
     /\ userId[p] # ProgressUser(games[existedGame[p]].firstPlayerProgressId)) =>
      LET g == existedGame[p] IN
        /\ games[g].status \in {active, finished}
        /\ games[g].status = active => games[g].finishGameDate = NULL
        /\ games[g].startGameDate # NULL
        /\ games[g].startGameDate = updatedAt[p]
        /\ progress[p] # NULL
        /\ games[g].secondPlayerProgressId = progress[p]
        /\ ProgressUser(progress[p]) = userId[p]
        /\ \E q \in Requests : newGame[q] = g /\ games[g].firstPlayerProgressId = progress[q]
        /\ Cardinality(QuestionsOf(g)) = QuestionsCount
        /\ {r.order : r \in QuestionsOf(g)} = 0..(QuestionsCount - 1)

C14_Witness ==
  \E p, q \in Requests :
    /\ result[p] = "Joined"
    /\ result[q] = "Created"
    /\ existedGame[p] = newGame[q]
    /\ userId[p] # userId[q]
    /\ games[existedGame[p]].status = active
    /\ games[existedGame[p]].startGameDate = updatedAt[p]
    /\ failures = 0

\* C15: a getGameInPendingSecondPalyer call that does not throw returns
\* nothing exactly when the store holds no pending game, and otherwise a game
\* that is pending with a first progress link and no second one in the store
\* state it read.
C15_FindOpenSlotReturnsPending ==
  [][\A p \in Requests :
       (pc[p] = "find" /\ pc'[p] # "find" /\ cause'[p] # "StorageFailure") =>
         IF \A g \in GameIds : games[g].status # pending
           THEN pc'[p] = "cg_progress" /\ existedGame'[p] = NULL
           ELSE /\ pc'[p] = "ctg_progress"
                /\ existedGame'[p] \in GameIds
                /\ games[existedGame'[p]].status = pending
                /\ games[existedGame'[p]].firstPlayerProgressId # NULL
                /\ games[existedGame'[p]].secondPlayerProgressId = NULL]_vars

C15_Witness ==
  \E p, q \in Requests :
    /\ existedGame[p] # NULL
    /\ existedGame[q] = NULL
    /\ pc[q] = "cg_progress"
    /\ \E g \in GameIds : games[g].status \in {active, finished}

\* C16: the INSERT of createGame adds exactly one game row, pending, linked to
\* the progress row this call created for its user, with no second link, no
\* dates and no question rows, and changes no other game and no progress row;
\* the progress step before it adds exactly one progress row of the user and
\* no game; the body returned has no questions and no second player.
C16_CreateGameFrame ==
  [][\A p \in Requests :
       /\ (pc[p] = "cg_progress" /\ pc'[p] = "cg_insert") =>
            /\ progresses' = Append(progresses, [userId |-> userId[p], score |-> 0])
            /\ progress'[p] = Len(progresses')
            /\ games' = games
       /\ (pc[p] = "cg_insert" /\ pc'[p] = "cg_read") =>
            /\ Len(games') = Len(games) + 1
            /\ \A g \in GameIds : games'[g] = games[g]
            /\ newGame'[p] = Len(games')
            /\ games'[newGame'[p]] =
                 [status |-> pending,
                  firstPlayerProgressId |-> progress[p],
                  secondPlayerProgressId |-> NULL,
                  startGameDate |-> NULL,
                  finishGameDate |-> NULL]
            /\ ProgressUser(progress[p]) = userId[p]
            /\ {r \in gameQuestions' : r.gameId = newGame'[p]} = {}
            /\ progresses' = progresses
       /\ (pc[p] = "cg_read" /\ result'[p] = "Created") =>
            /\ view'[p].id = newGame[p]
            /\ view'[p].questions = <<>>
            /\ view'[p].secondPlayerProgress = NULL
            /\ view'[p].firstPlayerProgress = progress[p]
            /\ games' = games /\ progresses' = progresses
            /\ gameQuestions' = gameQuestions]_vars

C16_Witness ==
  \E p \in Requests :
    /\ result[p] = "Created"
    /\ games[newGame[p]].status = pending
    /\ games[newGame[p]].firstPlayerProgressId = progress[p]
    /\ view[p].status = pending
    /\ QuestionsOf(newGame[p]) = {}
    /\ Len(games) = 2
\* C17: a createGame call that has ended in an error after its progress row
\* was created has left no progress row that no game links.
C17_CreateGameAtomic ==
  \A p \in Requests :
    (pc[p] = "done" /\ existedGame[p] = NULL /\ progress[p] # NULL
     /\ result[p] # "Created") =>
      /\ result[p] = "BadRequest"
      /\ Referenced(progress[p])

\* the (game, slot) pairs that link progress row pid
Links(pid) ==
  {<<g, "first">> : g \in {h \in GameIds : games[h].firstPlayerProgressId = pid}}
    \cup {<<g, "second">> : g \in {h \in GameIds : games[h].secondPlayerProgressId = pid}}

\* C18: every progress row is linked from at most one slot of at most one
\* game, and no two calls hold the same progress row.
C18_ProgressNeverShared ==
  /\ \A pid \in ProgressIds : Cardinality(Links(pid)) <= 1
  /\ \A p, q \in Requests :
       (p # q /\ progress[p] # NULL) => progress[p] # progress[q]
  /\ \A p \in Requests : progress[p] # NULL => progress[p] \in ProgressIds

C18_Witness ==
  \E g, h \in GameIds :
    /\ g # h
    /\ games[g].secondPlayerProgressId # NULL
    /\ games[g].firstPlayerProgressId # games[g].secondPlayerProgressId
    /\ games[h].firstPlayerProgressId # NULL
    /\ Len(progresses) = 3

\* the questions assigned to game g
AssignedQuestions(g) == {r.questionId : r \in QuestionsOf(g)}

\* C19: the questions assigned to a game are QuestionsCount pairwise distinct
\* questions of the pool, all of the pool when it holds exactly
\* QuestionsCount questions; with a smaller pool the draw fails, so no game
\* is assigned questions and no connectToGame call gets past the draw.
C19_DrawDistinctOrFail ==
  /\ \A g \in GameIds :
       QuestionsOf(g) # {} =>
         /\ Cardinality(AssignedQuestions(g)) = QuestionsCount
         /\ Cardinality(QuestionsOf(g)) = QuestionsCount
         /\ AssignedQuestions(g) \subseteq pool
         /\ Cardinality(pool) = QuestionsCount => AssignedQuestions(g) = pool
  /\ Cardinality(pool) < QuestionsCount =>
       /\ gameQuestions = {}
       /\ \A p \in Requests :
            /\ pc[p] \notin {"ctg_update", "ctg_read"}
            /\ result[p] # "Joined"
            /\ (pc[p] = "done" /\ existedGame[p] # NULL /\ failures = 0)
                 => cause[p] = "InsufficientQuestions"

C19_Witness ==
  \E g \in GameIds :
    /\ Cardinality(pool) = QuestionsCount
    /\ AssignedQuestions(g) = pool
    /\ \E r \in QuestionsOf(g) : r.order = 0 /\ r.questionId # 1

\* C20: what a getGameInPendingSecondPalyer call returns is determined by the
\* store state it reads: the game returned is the only row the query can
\* return in that state (requests of pairwise different users).
C20_FindOpenSlotDeterministic ==
  [][\A p \in Requests :
       (pc[p] = "find" /\ pc'[p] = "ctg_progress"
        /\ \A a, b \in Requests : a # b => userId[a] # userId[b]) =>
         \A g \in getGameInPendingSecondPalyer : existedGame'[p] = g]_vars

\* C21: for every game that has GameQuestion rows, the order values of the
\* rows are pairwise distinct and are exactly 0..k-1 for k rows, and the rows
\* refer to pairwise different questions.
C21_OrderIsRange ==
  \A g \in {r.gameId : r \in gameQuestions} :
    LET rows == QuestionsOf(g)
        k == Cardinality(rows)
    IN /\ \A r, s \in rows : r # s => r.order # s.order
       /\ {r.order : r \in rows} = 0..(k - 1)
       /\ \A r, s \in rows : r # s => r.questionId # s.questionId

C21_Witness ==
  \E g \in GameIds :
    /\ Cardinality(QuestionsOf(g)) = QuestionsCount
    /\ \E r \in QuestionsOf(g) : r.order = QuestionsCount - 1 /\ r.questionId = 1
    /\ \E p \in Requests : existedGame[p] = g /\ cause[p] = "DuplicateAssignment"

\* C22: once a game is active (or finished), no step writes its
\* secondPlayerProgressId or its startGameDate: the values written by the
\* activating UPDATE are the values the game holds in every later state.
C22_ActivationWrittenOnce ==
  [][\A g \in GameIds :
       games[g].status # pending =>
         /\ games'[g].secondPlayerProgressId = games[g].secondPlayerProgressId
         /\ games'[g].startGameDate = games[g].startGameDate]_vars

C22_Witness ==
  \E p, q \in Requests :
    /\ Racing(p, q)
    /\ result[p] = "Joined"
    /\ pc[q] = "done"
    /\ progress[q] # NULL
    /\ games[existedGame[p]].status = finished
    /\ games[existedGame[p]].secondPlayerProgressId = progress[p]
    /\ games[existedGame[p]].startGameDate = updatedAt[p]
    /\ now > updatedAt[p] + 1

\* the GameQuestion row with the given id
RowOf(id) == CHOOSE r \in gameQuestions : r.id = id

\* C23: the body returned by a successful connectToGame lists the questions of
\* the game in strictly ascending order of their order field, every entry
\* holding an id and the question body and nothing else, and reports status
\* active with both players' progress present (the joining user is not the
\* user who created the game).
C23_JoinedViewShape ==
  \A p \in Requests :
    (result[p] = "Joined"
     /\ userId[p] # ProgressUser(games[existedGame[p]].firstPlayerProgressId)) =>
      LET v == view[p]
          rows == QuestionsOf(existedGame[p])
      IN /\ v.id = existedGame[p]
         /\ {v.questions[i].id : i \in DOMAIN v.questions} = {r.id : r \in rows}
         /\ Len(v.questions) = Cardinality(rows)
         /\ \A i \in DOMAIN v.questions :
              /\ DOMAIN v.questions[i] = {"id", "body"}
              /\ v.questions[i].body = RowOf(v.questions[i].id).questionId
         /\ \A i, j \in DOMAIN v.questions :
              i < j => RowOf(v.questions[i].id).order < RowOf(v.questions[j].id).order
         /\ v.status = active
         /\ v.firstPlayerProgress # NULL
         /\ v.secondPlayerProgress # NULL

\* the token of the header fails verification
FailsVerification(h) == h # <<>> /\ verifyAccessToken(TokenOf(h)).throws

\* C24: a getPostsByBlogId request whose authorization token fails
\* verification is handled as an anonymous request: it is answered with an
\* error only when the blog was not found, the posts query runs with
\* currentUserId = null, and its response is the response of a request
\* without authorization header that read the same blog.
C24_BadTokenIsAnonymous ==
  \A r \in BlogRequests :
    FailsVerification(authorization[r]) =>
      /\ bpc[r] \in {"posts", "done"} => currentUserId[r] = NULL
      /\ bpc[r] = "done" =>
           /\ response[r] = IF blog[r] = NULL THEN NotFound
                            ELSE Ok(getAllPosts(NULL, blog[r]))
           /\ \A a \in BlogRequests :
                (authorization[a] = <<>> /\ bpc[a] = "done" /\ blog[a] = blog[r])
                  => response[a] = response[r]

C24_Witness ==
  \E r, a \in BlogRequests :
    /\ authorization[r] = <<"Bearer", [sub |-> 1, sig |-> "bad"]>>
    /\ authorization[a] = <<>>
    /\ bpc[r] = "done" /\ bpc[a] = "done"
    /\ logged[r] /\ ~logged[a]
    /\ blog[r] # NULL /\ blog[a] = blog[r]
    /\ response[r].status = 200
    /\ response[r] = response[a]
====
